---- MODULE Spec2Model ----
(***************************************************************************)
(* Model of saracen/fpf: form value population and error message          *)
(* insertion over a parsed HTML node tree (fpf.go, attr/attr.go).          *)
(*                                                                         *)
(* A document is a function from node ids to node records                  *)
(*   [Type, Data, Attr, Parent, Children]                                  *)
(* mirroring golang.org/x/net/html's Node: Children is the FirstChild /    *)
(* NextSibling chain, Parent is 0 for nil.  Attr is the attribute slice    *)
(* as seen through the node (its length is the slice header's length).     *)
(***************************************************************************)
EXTENDS Integers, Sequences, FiniteSets, TLC

VARIABLES doc, forms, pforms, fobjs, plabels, pc, pending, cur, incIdx,
          IncludeHiddenInputs, IncludePasswordInputs,
          SingleElementErrorLocation, MultipleElementErrorLocation

vars == <<doc, forms, pforms, fobjs, plabels, pc, pending, cur, incIdx,
          IncludeHiddenInputs, IncludePasswordInputs,
          SingleElementErrorLocation, MultipleElementErrorLocation>>

NULL == 0

\* ------------------------------------------------------------------ bounds
MaxParams == 2
MaxIncidents == 2
MaxInputs == 3

\* ------------------------------------------------------- generic helpers
RECURSIVE SetToSeq(_)
SetToSeq(S) ==
  IF S = {} THEN <<>>
  ELSE LET m == CHOOSE x \in S : \A y \in S : x <= y
       IN <<m>> \o SetToSeq(S \ {m})

RECURSIVE Perms(_)
Perms(S) ==
  IF S = {} THEN {<<>>}
  ELSE UNION {{<<x>> \o p : p \in Perms(S \ {x})} : x \in S}

MapGet(m, k) == IF k \in DOMAIN m THEN m[k] ELSE <<>>
MapPut(m, k, v) == [x \in (DOMAIN m) \cup {k} |-> IF x = k THEN v ELSE m[x]]
EmptyMap == [x \in {} |-> <<>>]

\* ------------------------------------------------ attr.Attributes (attr.go)
A(k, v) == [Key |-> k, Val |-> v]

\* Attributes.Attribute: index of the first attribute named name, 0 for nil.
Attribute(attrs, name) ==
  IF \E i \in 1..Len(attrs) : attrs[i].Key = name
  THEN CHOOSE i \in 1..Len(attrs) :
         attrs[i].Key = name /\ \A j \in 1..(i-1) : attrs[j].Key # name
  ELSE 0

Get(attrs, name) ==
  IF Attribute(attrs, name) # 0 THEN attrs[Attribute(attrs, name)].Val ELSE ""

Has(attrs, name) == Attribute(attrs, name) # 0

\* append(attrs[:i], attrs[i+1:]...) on the shared backing array: the cells
\* i..len-1 take the values of i+1..len; cell len (and all beyond) keep theirs.
ShiftLeft(arr, i, len) ==
  [j \in 1..Len(arr) |-> IF j >= i /\ j < len THEN arr[j+1] ELSE arr[j]]

\* Attributes.Remove has a value receiver: the reslice is local, the caller's
\* slice header keeps its length n and sees the shifted backing array.  The
\* range is over the original length, the index is into the shrunk local
\* slice: an index past its length is a run-time panic.
RECURSIVE RemoveLoop(_, _, _, _)
RemoveLoop(arr, len, i, name) ==
  IF i > Len(arr) THEN [Attr |-> arr, panicked |-> FALSE]
  ELSE IF i > len THEN [Attr |-> arr, panicked |-> TRUE]
  ELSE IF arr[i].Key = name
       THEN RemoveLoop(ShiftLeft(arr, i, len), len - 1, i + 1, name)
       ELSE RemoveLoop(arr, len, i + 1, name)

Remove(attrs, name) == RemoveLoop(attrs, Len(attrs), 1, name)

\* --------------------------------------------- html.Node tree operations
FirstChild(d, n) == IF d[n].Children = <<>> THEN NULL ELSE d[n].Children[1]

IndexOf(seq, x) == CHOOSE i \in 1..Len(seq) : seq[i] = x

NextSibling(d, n) ==
  IF d[n].Parent = NULL THEN NULL
  ELSE LET sibs == d[d[n].Parent].Children
           i == IndexOf(sibs, n)
       IN IF i < Len(sibs) THEN sibs[i + 1] ELSE NULL

AppendChild(d, p, c) ==
  [d EXCEPT ![p].Children = Append(@, c), ![c].Parent = p]

\* InsertBefore(newChild, oldChild): before oldChild, at the end when it is nil.
InsertBefore(d, p, c, old) ==
  IF old = NULL THEN AppendChild(d, p, c)
  ELSE LET sibs == d[p].Children
           i == IndexOf(sibs, old)
       IN [d EXCEPT ![p].Children = SubSeq(sibs, 1, i - 1) \o <<c>> \o SubSeq(sibs, i, Len(sibs)),
                    ![c].Parent = p]

\* RemoveChild clears the child's Parent and sibling links.
RemoveChild(d, p, c) ==
  [d EXCEPT ![p].Children = SelectSeq(@, LAMBDA x : x # c), ![c].Parent = NULL]

NewNode(type, data, attrs) ==
  [Type |-> type, Data |-> data, Attr |-> attrs, Parent |-> NULL, Children |-> <<>>]

\* Proper ancestors of n, nearest first (the chain n.Parent, n.Parent.Parent, ...).
RECURSIVE Ancestors(_, _)
Ancestors(d, n) ==
  IF d[n].Parent = NULL THEN <<>>
  ELSE <<d[n].Parent>> \o Ancestors(d, d[n].Parent)

\* ------------------------------------------------------ processor.traverse
NoContext == [Form |-> NULL, Label |-> NULL, Select |-> NULL]

IsInputKind(node) ==
  \/ node.Data \in {"input", "textarea", "progress", "meter", "select"}
  \/ node.Data = "button" /\ Get(node.Attr, "type") = "submit"

\* The body of traverse for one node (fpf.go 184-253); st is
\* [fobjs, plabels, context], pf is p.forms (form id -> *Form).
visit(d, pf, st, n) ==
  LET context == st.context
      attributes == d[n].Attr
      formAttribute == Attribute(attributes, "form")
      formId0 == IF formAttribute # 0 THEN attributes[formAttribute].Val ELSE ""
      formId == IF formId0 = "" /\ context.Form # NULL
                THEN Get(d[context.Form].Attr, "id") ELSE formId0
  IN IF d[n].Type # "element" THEN st
     ELSE IF context.Form = NULL /\ formAttribute = 0 THEN st
     ELSE IF formId \notin DOMAIN pf THEN st
     ELSE IF d[n].Data = "label" /\ Has(attributes, "for")
          THEN [st EXCEPT !.plabels = Append(@, n)]
     ELSE IF context.Select # NULL /\ d[n].Data = "option"
          THEN [st EXCEPT !.fobjs[pf[formId]].options =
                   MapPut(@, context.Select, Append(MapGet(@, context.Select), n))]
     ELSE IF Get(attributes, "name") = "" THEN st
     ELSE IF ~IsInputKind(d[n]) THEN st
     ELSE [st EXCEPT
             !.context = IF d[n].Data = "select" THEN [@ EXCEPT !.Select = n] ELSE @,
             !.fobjs[pf[formId]].inputs = Append(@, n),
             !.fobjs[pf[formId]].labels =
                 IF context.Label # NULL
                 THEN MapPut(@, n, Append(MapGet(@, n), context.Label))
                 ELSE @]

RECURSIVE traverse(_, _, _, _, _), traverseChildren(_, _, _, _, _, _)
traverse(d, pf, acc, n, context) ==
  LET isEl == d[n].Type = "element"
      ctx1 == IF isEl /\ d[n].Data = "form" THEN [context EXCEPT !.Form = n]
              ELSE IF isEl /\ d[n].Data = "label" THEN [context EXCEPT !.Label = n]
              ELSE context
      r == visit(d, pf, [fobjs |-> acc.fobjs, plabels |-> acc.plabels, context |-> ctx1], n)
  IN traverseChildren(d, pf, [fobjs |-> r.fobjs, plabels |-> r.plabels],
                      d[n].Children, 1, r.context)

traverseChildren(d, pf, acc, kids, k, context) ==
  IF k > Len(kids) THEN acc
  ELSE traverseChildren(d, pf, traverse(d, pf, acc, kids[k], context), kids, k + 1, context)

\* ------------------------------------------- Execute: binding of the forms
FormObj(form) ==
  [ID |-> form.ID, Values |-> form.Values, Incidents |-> form.Incidents,
   inputs |-> <<>>, labels |-> EmptyMap, options |-> EmptyMap]

FormIDs(fs) == {fs[i].ID : i \in 1..Len(fs)}

LastWithID(fs, id) ==
  CHOOSE i \in 1..Len(fs) : fs[i].ID = id /\ \A j \in (i+1)..Len(fs) : fs[j].ID # id

\* for _, form := range forms { ...; p.forms[form.ID] = &form }.  With one
\* loop variable for the whole loop (Go before 1.22) every key holds the same
\* pointer and the variable ends as the last form; with a variable per
\* iteration (Go 1.22 on) every key has its own Form.
BindObjs(fs, perIteration) ==
  IF perIteration THEN [i \in 1..Len(fs) |-> FormObj(fs[i])]
  ELSE IF fs = <<>> THEN <<>> ELSE <<FormObj(fs[Len(fs)])>>

BindMap(fs, perIteration) ==
  [id \in FormIDs(fs) |-> IF perIteration THEN LastWithID(fs, id) ELSE 1]

\* ------------------------------------------------------ processor.populate
\* The option loop of the select rule (fpf.go 265-275) for one option.
RECURSIVE appendSelected(_, _, _, _)
appendSelected(attrs, value, params, k) ==
  IF k > Len(params) THEN attrs
  ELSE appendSelected(IF value = params[k]
                      THEN Append(attrs, A("selected", "selected")) ELSE attrs,
                      value, params, k + 1)

populateOption(d, option, params) ==
  LET r == Remove(d[option].Attr, "selected")
  IN IF r.panicked
     THEN [doc |-> [d EXCEPT ![option].Attr = r.Attr], panicked |-> TRUE]
     ELSE [doc |-> [d EXCEPT ![option].Attr =
                       appendSelected(r.Attr, Get(r.Attr, "value"), params, 1)],
           panicked |-> FALSE]

RECURSIVE populateOptions(_, _, _, _)
populateOptions(d, options, k, params) ==
  IF k > Len(options) THEN [doc |-> d, panicked |-> FALSE]
  ELSE LET r == populateOption(d, options[k], params)
       IN IF r.panicked THEN r ELSE populateOptions(r.doc, options, k + 1, params)

\* The textarea rule (fpf.go 279-285).  RemoveChild clears c.NextSibling, so
\* the loop ends after the first child; the new text node is a fresh node.
populateTextarea(d, input, params) ==
  LET c == FirstChild(d, input)
      d1 == IF c # NULL THEN RemoveChild(d, input, c) ELSE d
  IN IF params = <<>> THEN [doc |-> d1, panicked |-> TRUE]
     ELSE [doc |-> AppendChild(Append(d1, NewNode("text", params[1], <<>>)),
                               input, Len(d1) + 1),
           panicked |-> FALSE]

\* The radio / checkbox rule (fpf.go 294-298): value is a pointer into the
\* attribute array, read after Remove has run over the same array.
populateChecked(d, input, params) ==
  LET value == Attribute(d[input].Attr, "value")
      r == Remove(d[input].Attr, "checked")
  IN IF r.panicked
     THEN [doc |-> [d EXCEPT ![input].Attr = r.Attr], panicked |-> TRUE]
     ELSE IF value = 0
     THEN [doc |-> [d EXCEPT ![input].Attr = Append(r.Attr, A("checked", "checked"))],
           panicked |-> FALSE]
     ELSE IF params = <<>>
     THEN [doc |-> [d EXCEPT ![input].Attr = r.Attr], panicked |-> TRUE]
     ELSE [doc |-> [d EXCEPT ![input].Attr =
                       IF r.Attr[value].Val = params[1]
                       THEN Append(r.Attr, A("checked", "checked")) ELSE r.Attr],
           panicked |-> FALSE]

\* populateValue without the password / hidden switches.
populateValueUngated(d, input, params, typ, inclHidden, inclPassword) ==
  LET r == Remove(d[input].Attr, "value")
  IN IF r.panicked \/ params = <<>>
     THEN [doc |-> [d EXCEPT ![input].Attr = r.Attr], panicked |-> TRUE]
     ELSE [doc |-> [d EXCEPT ![input].Attr = Append(r.Attr, A("value", params[1]))],
           panicked |-> FALSE]

\* The rule for every other type (fpf.go 303-311).
populateValue(d, input, params, typ, inclHidden, inclPassword) ==
  IF typ = "password" /\ ~inclPassword THEN [doc |-> d, panicked |-> FALSE]
  ELSE IF typ = "hidden" /\ ~inclHidden THEN [doc |-> d, panicked |-> FALSE]
  ELSE LET r == Remove(d[input].Attr, "value")
       IN IF r.panicked \/ params = <<>>
          THEN [doc |-> [d EXCEPT ![input].Attr = r.Attr], panicked |-> TRUE]
          ELSE [doc |-> [d EXCEPT ![input].Attr = Append(r.Attr, A("value", params[1]))],
                panicked |-> FALSE]

\* One iteration of the loop over the form's inputs (fpf.go 258-314).
populateInput(d, form, input, inclHidden, inclPassword) ==
  LET attributes == d[input].Attr
      name == Get(attributes, "name")
      typ == Get(attributes, "type")
  IN IF name \notin DOMAIN form.Values THEN [doc |-> d, panicked |-> FALSE]
     ELSE LET params == form.Values[name] IN
       IF d[input].Data = "select"
       THEN IF input \in DOMAIN form.options
            THEN populateOptions(d, form.options[input], 1, params)
            ELSE [doc |-> d, panicked |-> FALSE]
       ELSE IF d[input].Data = "textarea" THEN populateTextarea(d, input, params)
       ELSE IF typ \in {"radio", "checkbox"} THEN populateChecked(d, input, params)
       ELSE IF typ \in {"file", "image"} THEN [doc |-> d, panicked |-> FALSE]
       ELSE populateValue(d, input, params, typ, inclHidden, inclPassword)

RECURSIVE populateFrom(_, _, _, _, _)
populateFrom(d, form, k, inclHidden, inclPassword) ==
  IF k > Len(form.inputs) THEN [doc |-> d, panicked |-> FALSE]
  ELSE LET r == populateInput(d, form, form.inputs[k], inclHidden, inclPassword)
       IN IF r.panicked THEN r
          ELSE populateFrom(r.doc, form, k + 1, inclHidden, inclPassword)

populate(d, form, inclHidden, inclPassword) ==
  populateFrom(d, form, 1, inclHidden, inclPassword)

\* ----------------------------- Execute: labels with a "for" (fpf.go 376-383)
RECURSIVE matchInputs(_, _, _, _, _)
matchInputs(d, form, label, id, k) ==
  IF k > Len(form.inputs) THEN form
  ELSE LET input == form.inputs[k]
           form1 == IF id = Get(d[input].Attr, "id")
                    THEN [form EXCEPT !.labels =
                            MapPut(@, input, Append(MapGet(form.options, input), label))]
                    ELSE form
       IN matchInputs(d, form1, label, id, k + 1)

RECURSIVE matchLabels(_, _, _, _)
matchLabels(d, form, labels, k) ==
  IF k > Len(labels) THEN form
  ELSE matchLabels(d, matchInputs(d, form, labels[k], Get(d[labels[k]].Attr, "for"), 1),
                   labels, k + 1)

\* -------------------------------------------------------- processor.insert
\* The names loop for one input (fpf.go 328-337).
RECURSIVE elementsOfInput(_, _, _, _, _)
elementsOfInput(d, form, input, names, k) ==
  IF k > Len(names) THEN <<>>
  ELSE (IF Get(d[input].Attr, "name") # names[k] THEN <<>>
        ELSE <<[Element |-> input, Labels |-> MapGet(form.labels, input)]>>)
       \o elementsOfInput(d, form, input, names, k + 1)

RECURSIVE elementsFrom(_, _, _, _)
elementsFrom(d, form, names, k) ==
  IF k > Len(form.inputs) THEN <<>>
  ELSE elementsOfInput(d, form, form.inputs[k], names, 1)
       \o elementsFrom(d, form, names, k + 1)

elementsOf(d, form, incident) == elementsFrom(d, form, incident.Names, 1)

\* ------------------------------------------ GenericIncidentInserter.Insert
ErrorClass == "error"

\* The default template, <ul class="errors">{{range .}}<li>{{.}}</li>{{end}}</ul>,
\* parsed as a fragment: the ul is appended to d as node Len(d) + 1, detached.
RECURSIVE addItems(_, _, _, _)
addItems(d, ul, errors, k) ==
  IF k > Len(errors) THEN d
  ELSE LET li == Len(d) + 1
           d1 == Append(Append(d, NewNode("element", "li", <<>>)),
                        NewNode("text", errors[k], <<>>))
       IN addItems(AppendChild(AppendChild(d1, li, li + 1), ul, li), ul, errors, k + 1)

errorFragment(d, errors) ==
  addItems(Append(d, NewNode("element", "ul", <<A("class", "errors")>>)),
           Len(d) + 1, errors, 1)

addErrorClass(d, node) ==
  LET class == Attribute(d[node].Attr, "class")
  IN IF class # 0
     THEN [d EXCEPT ![node].Attr[class].Val = @ \o " " \o ErrorClass]
     ELSE [d EXCEPT ![node].Attr = Append(@, A("class", ErrorClass))]

RECURSIVE markLabels(_, _, _)
markLabels(d, labels, k) ==
  IF k > Len(labels) THEN d
  ELSE markLabels(addErrorClass(d, labels[k]), labels, k + 1)

RECURSIVE markElements(_, _, _)
markElements(d, elements, k) ==
  IF k > Len(elements) THEN d
  ELSE markElements(markLabels(addErrorClass(d, elements[k].Element),
                               elements[k].Labels, 1),
                    elements, k + 1)

\* The first node of a's parent chain that is also on b's parent chain.
FirstShared(as, bs) ==
  IF \E i \in 1..Len(as) : \E j \in 1..Len(bs) : as[i] = bs[j]
  THEN as[CHOOSE i \in 1..Len(as) :
            /\ \E j \in 1..Len(bs) : as[i] = bs[j]
            /\ \A h \in 1..(i-1) : \A j \in 1..Len(bs) : as[h] # bs[j]]
  ELSE NULL

RECURSIVE lca(_, _, _)
lca(d, a, next) ==
  LET b == next[1].Element
      ap == FirstShared(Ancestors(d, a), Ancestors(d, b))
  IN IF ap = NULL THEN a
     ELSE IF Len(next) > 1 THEN lca(d, ap, Tail(next))
     ELSE ap

\* The placement switch (fpf.go 65-91); frag is errorNode[0].
place(d, elements, frag) ==
  IF Len(elements) = 1
  THEN InsertBefore(d, d[elements[1].Element].Parent, frag,
                    NextSibling(d, elements[1].Element))
  ELSE AppendChild(d, lca(d, elements[1].Element, Tail(elements)), frag)

Insert(d, elements, errors) ==
  LET frag == Len(d) + 1
  IN place(markElements(errorFragment(d, errors), elements, 1), elements, frag)

\* insertIncident without the len(elements) > 0 test: an incident that matches
\* nothing is reported at the first input of the form.
insertIncidentUnguarded(d, form, incident) ==
  LET elements == elementsOf(d, form, incident)
  IN IF Len(elements) > 0 THEN Insert(d, elements, incident.Errors)
     ELSE IF form.inputs = <<>> THEN d
     ELSE Insert(d, <<[Element |-> form.inputs[1],
                       Labels |-> MapGet(form.labels, form.inputs[1])]>>,
                 incident.Errors)

\* One iteration of the incident loop of processor.insert (fpf.go 321-345).
insertIncident(d, form, incident) ==
  LET elements == elementsOf(d, form, incident)
  IN IF Len(elements) > 0 THEN Insert(d, elements, incident.Errors) ELSE d

\* processor.insert: the incidents of the form, in order.
RECURSIVE insertFrom(_, _, _)
insertFrom(d, form, k) ==
  IF k > Len(form.Incidents) THEN d
  ELSE insertFrom(insertIncident(d, form, form.Incidents[k]), form, k + 1)

insert(d, form) == insertFrom(d, form, 1)

\* ------------------------------ Execute: the loop over p.forms (fpf.go 375-392)
\* One turn of the loop for map key `key`: the labels, populate, insert, all on
\* p.forms[form.ID] where form is the Form the key points at.
executeForm(d, pf, fo, labels, key, inclHidden, inclPassword) ==
  LET obj == pf[fo[pf[key]].ID]
      fo1 == [fo EXCEPT ![obj] = matchLabels(d, @, labels, 1)]
      r == populate(d, fo1[obj], inclHidden, inclPassword)
  IN IF r.panicked THEN [doc |-> r.doc, fobjs |-> fo1, panicked |-> TRUE]
     ELSE [doc |-> insert(r.doc, fo1[obj]), fobjs |-> fo1, panicked |-> FALSE]

\* The loop, visiting the keys in the order `order`.
RECURSIVE executeForms(_, _, _, _, _, _, _, _)
executeForms(d, pf, fo, labels, order, k, inclHidden, inclPassword) ==
  IF k > Len(order) THEN [doc |-> d, fobjs |-> fo, panicked |-> FALSE]
  ELSE LET r == executeForm(d, pf, fo, labels, order[k], inclHidden, inclPassword)
       IN IF r.panicked THEN r
          ELSE executeForms(r.doc, pf, r.fobjs, labels, order, k + 1,
                            inclHidden, inclPassword)

\* ------------------------------------------------------------- documents
\* A parsed document, built from a list of [Type, Data, Attr, Parent]; the
\* children of a node are the nodes naming it as Parent, in list order.
E(type, data, attrs, parent) ==
  [Type |-> type, Data |-> data, Attr |-> attrs, Parent |-> parent]

MkDoc(entries) ==
  [n \in 1..Len(entries) |->
     [Type |-> entries[n].Type, Data |-> entries[n].Data, Attr |-> entries[n].Attr,
      Parent |-> entries[n].Parent,
      Children |-> SetToSeq({m \in 1..Len(entries) : entries[m].Parent = n})]]

\* html.Parse always yields document > html > (head, body); node 5 is
\* <form action="/"> as in the tests.
FormNode == 5
Base ==
  <<E("document", "", <<>>, NULL), E("element", "html", <<>>, 1),
    E("element", "head", <<>>, 2), E("element", "body", <<>>, 2),
    E("element", "form", <<A("action", "/")>>, 4)>>

ParamPool == {"a", "b"}
ValueOpts == {{}} \cup {{A("value", x)} : x \in ParamPool}

\* Attribute lists of <input name="foo" ...>, in every order.
CheckedAttrs ==
  UNION {Perms({A("name", "foo"), A("type", x[1])} \cup x[2] \cup x[3]) :
           x \in {"radio", "checkbox"} \X ValueOpts \X {{}, {A("checked", "")}}}

OtherAttrs ==
  UNION {Perms({A("name", "foo")} \cup x[1] \cup x[2]) :
           x \in ({{}} \cup {{A("type", t)} :
                     t \in {"text", "file", "image", "password", "hidden"}}) \X ValueOpts}

OptionAttrs ==
  UNION {Perms(x[1] \cup x[2]) : x \in ValueOpts \X {{}, {A("selected", "")}}}

InputDocs ==
  {MkDoc(Base \o <<E("element", "input", as, FormNode)>>) :
     as \in CheckedAttrs \cup OtherAttrs}

SelectDocs ==
  {MkDoc(Base \o <<E("element", "select", <<A("name", "foo")>>, FormNode),
                   E("element", "option", x[1], 6),
                   E("element", "optgroup", <<A("label", "opt")>>, 6),
                   E("element", "option", x[2], 8)>>) :
     x \in OptionAttrs \X OptionAttrs}

TextareaDocs ==
  {MkDoc(Base \o <<E("element", "textarea", <<A("name", "foo")>>, FormNode)>> \o t) :
     t \in {<<>>, <<E("text", "replace", <<>>, 6)>>}}

ParamLists == UNION {[1..m -> ParamPool] : m \in 1..MaxParams}

Incident(names, errors) == [Names |-> names, Errors |-> errors]

PopulateForms ==
  {<<[ID |-> "", Values |-> v,
      Incidents |-> <<Incident(<<"foo">>, <<"e1">>)>>]>> :
     v \in {EmptyMap} \cup {[n \in {"foo"} |-> ps] : ps \in ParamLists}}

\* Error insertion: inputs n1, n2, ... under <form> or under one of two nested
\* <div>s (node 6 in the form, node 7 in node 6).
NamePool == <<"n1", "n2", "n3", "n4", "n5">>
ErrPool == <<"e1", "e2", "e3", "e4">>
Containers == {FormNode, 6, 7}
Skeleton == Base \o <<E("element", "div", <<>>, FormNode), E("element", "div", <<>>, 6)>>

ShapeDocs(k) ==
  {MkDoc(Skeleton \o [i \in 1..k |->
                        E("element", "input", <<A("name", NamePool[i])>>, ps[i])]) :
     ps \in [1..k -> Containers]}

\* An input inside another populatable element.
NestedDocs ==
  {MkDoc(Base \o <<E("element", "meter", <<A("name", "n1")>>, FormNode),
                   E("element", "input", <<A("name", "n2")>>, 6),
                   E("element", "input", <<A("name", "n3")>>, FormNode)>>)}

\* The names an incident may carry over k inputs: the first j inputs, one
\* input named twice, a name no input has.
IncidentNames(k) == {SubSeq(NamePool, 1, j) : j \in 1..k} \cup {<<"zz">>}
RepeatedName == {<<"n1", "n1">>}

IncidentLists(nameSeqs) ==
  UNION {{[i \in 1..m |-> Incident(ns[i], <<ErrPool[i]>>)] : ns \in [1..m -> nameSeqs]} :
           m \in 0..MaxIncidents}

IncidentForms(nameSeqs) ==
  {<<[ID |-> "", Values |-> [n \in {"n1"} |-> <<"a">>], Incidents |-> is]>> :
     is \in IncidentLists(nameSeqs)}

\* Labels: an outer <label> (node 6), a control n1 (node 7) inside or beside
\* it, an <option> under it (node 8) when it is a select, then labels for="x".
ControlAttrs ==
  {id \o <<A("name", "n1")>> \o class :
     id \in {<<>>, <<A("id", "x")>>}, class \in {<<>>, <<A("class", "foobar")>>}}

LabelDocs ==
  {MkDoc(Base \o <<E("element", "label", x[1], FormNode),
                   E("element", x[2], x[3], x[4]),
                   E("element", "option", <<A("value", "a")>>, 7)>>
              \o [i \in 1..x[5] |-> E("element", "label", <<A("for", "x")>>, FormNode)]) :
     x \in {<<>>, <<A("for", "x")>>, <<A("class", "lbl")>>} \X {"input", "select"}
            \X ControlAttrs \X {FormNode, 6} \X (0..2)}

Locations == {"Before", "After", "Child"}

InitDocForms ==
  \/ \E k \in 1..MaxInputs :
       doc \in ShapeDocs(k) /\ forms \in IncidentForms(IncidentNames(k) \cup RepeatedName)
  \/ doc \in NestedDocs /\ forms \in IncidentForms(IncidentNames(3))
  \/ doc \in LabelDocs /\ forms \in IncidentForms({<<"n1">>})

\* Several forms: <form id="A"> (node 5) with a <div> (node 6), <form id="B">
\* (node 7); inputs named n1, n2, n1, n2, ... each under one of them and with
\* or without a form attribute.
FormA == 5
FormB == 7
FormsBase ==
  <<E("document", "", <<>>, NULL), E("element", "html", <<>>, 1),
    E("element", "head", <<>>, 2), E("element", "body", <<>>, 2),
    E("element", "form", <<A("id", "A")>>, 4), E("element", "div", <<>>, FormA),
    E("element", "form", <<A("id", "B")>>, 4)>>

FormAttr(f) == IF f = "none" THEN <<>> ELSE <<A("form", f)>>

\* Where an input may stand: <<parent, form attribute>>.
NestedPlaces == {<<FormA, "none">>, <<6, "none">>, <<6, "B">>, <<FormB, "none">>}
OtherPlaces == {<<FormB, "A">>, <<6, "">>, <<6, "C">>, <<4, "B">>, <<4, "none">>}

FormsDocsOver(k, places) ==
  {MkDoc(FormsBase \o [i \in 1..k |->
            E("element", "input",
              <<A("name", NamePool[((i - 1) % 2) + 1])>> \o FormAttr(ps[i][2]),
              ps[i][1])]) :
     ps \in [1..k -> places]}

FormsDocs == FormsDocsOver(4, NestedPlaces) \cup FormsDocsOver(2, NestedPlaces \cup OtherPlaces)

FormIncidents(error) ==
  {<<>>, <<Incident(<<"n1">>, <<error>>)>>, <<Incident(<<"n1", "n2">>, <<error>>)>>}

\* The forms argument of Execute: forms A and B in either order, or A alone.
FormsLists ==
  UNION {{<<a, b>>, <<b, a>>, <<a>>} :
           a \in {[ID |-> "A", Values |-> [n \in {"n1"} |-> <<"a">>], Incidents |-> is] :
                    is \in FormIncidents("e1")},
           b \in {[ID |-> "B", Values |-> [n \in {"n1"} |-> <<"b">>], Incidents |-> is] :
                    is \in FormIncidents("e2")}}

\* New: the default configuration.
New == [IncludeHiddenInputs |-> TRUE, IncludePasswordInputs |-> FALSE]

\* ---------------------------------------------------------- specification
InitProcessor ==
  /\ pforms = EmptyMap
  /\ fobjs = <<>>
  /\ plabels = <<>>
  /\ pc = "start"
  /\ pending = {}
  /\ cur = ""
  /\ incIdx = 0

InitPopulate ==
  /\ doc \in InputDocs \cup SelectDocs \cup TextareaDocs
  /\ forms \in PopulateForms
  /\ IncludeHiddenInputs \in BOOLEAN
  /\ IncludePasswordInputs \in BOOLEAN
  /\ SingleElementErrorLocation = "After"
  /\ MultipleElementErrorLocation = "Child"
  /\ InitProcessor

InitIncident ==
  /\ InitDocForms
  /\ IncludeHiddenInputs = New.IncludeHiddenInputs
  /\ IncludePasswordInputs = New.IncludePasswordInputs
  /\ SingleElementErrorLocation = "After"
  /\ MultipleElementErrorLocation = "Child"
  /\ InitProcessor

\* The document and the form of TestErrorLocation.
ErrorLocationDoc ==
  MkDoc(Base \o <<E("element", "input", <<A("type", "text"), A("name", "n1")>>, FormNode),
                  E("element", "div", <<>>, FormNode),
                  E("element", "input", <<A("type", "checkbox"), A("name", "n2")>>, 7),
                  E("element", "input", <<A("type", "checkbox"), A("name", "n3")>>, 7)>>)

ErrorLocationForms ==
  <<[ID |-> "", Values |-> [n \in {"n1"} |-> <<"a">>],
     Incidents |-> <<Incident(<<"n1">>, <<"e1">>), Incident(<<"n2", "n3">>, <<"e2">>)>>]>>

\* TestErrorLocation sets the two placements before each Execute.
InitLocation ==
  /\ \/ doc = ErrorLocationDoc /\ forms = ErrorLocationForms
     \/ \E k \in 1..2 : doc \in ShapeDocs(k) /\ forms \in IncidentForms(IncidentNames(k))
  /\ IncludeHiddenInputs = New.IncludeHiddenInputs
  /\ IncludePasswordInputs = New.IncludePasswordInputs
  /\ SingleElementErrorLocation \in Locations
  /\ MultipleElementErrorLocation \in Locations
  /\ InitProcessor

InitForms ==
  /\ doc \in FormsDocs
  /\ forms \in FormsLists
  /\ IncludeHiddenInputs = New.IncludeHiddenInputs
  /\ IncludePasswordInputs = New.IncludePasswordInputs
  /\ SingleElementErrorLocation = "After"
  /\ MultipleElementErrorLocation = "Child"
  /\ InitProcessor

\* Execute up to the end of the traversal (fpf.go 352-372).
Parse ==
  /\ pc = "start"
  /\ \E perIteration \in BOOLEAN :
       LET pf == BindMap(forms, perIteration)
           r == traverse(doc, pf, [fobjs |-> BindObjs(forms, perIteration),
                                   plabels |-> <<>>], 1, NoContext)
       IN /\ pforms' = pf
          /\ fobjs' = r.fobjs
          /\ plabels' = r.plabels
          /\ pending' = DOMAIN pf
  /\ pc' = "forms"
  /\ UNCHANGED <<doc, forms, cur, incIdx, IncludeHiddenInputs, IncludePasswordInputs,
                 SingleElementErrorLocation, MultipleElementErrorLocation>>

\* One turn of `for _, form := range p.forms`, up to the labels (fpf.go 375-383):
\* the map is ranged in any order.
ResolveLabels ==
  /\ pc = "forms"
  /\ \E key \in pending :
       LET form == fobjs[pforms[key]]
       IN /\ fobjs' = [fobjs EXCEPT ![pforms[form.ID]] = matchLabels(doc, @, plabels, 1)]
          /\ cur' = form.ID
          /\ pending' = pending \ {key}
  /\ pc' = "populate"
  /\ UNCHANGED <<doc, forms, pforms, plabels, incIdx, IncludeHiddenInputs,
                 IncludePasswordInputs, SingleElementErrorLocation,
                 MultipleElementErrorLocation>>

Populate ==
  /\ pc = "populate"
  /\ LET r == populate(doc, fobjs[pforms[cur]], IncludeHiddenInputs, IncludePasswordInputs)
     IN /\ doc' = r.doc
        /\ pc' = IF r.panicked THEN "panic" ELSE "insert"
  /\ incIdx' = 1
  /\ UNCHANGED <<forms, pforms, fobjs, plabels, pending, cur, IncludeHiddenInputs,
                 IncludePasswordInputs, SingleElementErrorLocation,
                 MultipleElementErrorLocation>>

InsertIncident ==
  /\ pc = "insert"
  /\ incIdx <= Len(fobjs[pforms[cur]].Incidents)
  /\ doc' = insertIncident(doc, fobjs[pforms[cur]], fobjs[pforms[cur]].Incidents[incIdx])
  /\ incIdx' = incIdx + 1
  /\ UNCHANGED <<forms, pforms, fobjs, plabels, pc, pending, cur, IncludeHiddenInputs,
                 IncludePasswordInputs, SingleElementErrorLocation,
                 MultipleElementErrorLocation>>

EndForm ==
  /\ pc = "insert"
  /\ incIdx > Len(fobjs[pforms[cur]].Incidents)
  /\ pc' = "forms"
  /\ incIdx' = 0
  /\ UNCHANGED <<doc, forms, pforms, fobjs, plabels, pending, cur, IncludeHiddenInputs,
                 IncludePasswordInputs, SingleElementErrorLocation,
                 MultipleElementErrorLocation>>

Render ==
  /\ pc = "forms"
  /\ pending = {}
  /\ pc' = "done"
  /\ UNCHANGED <<doc, forms, pforms, fobjs, plabels, pending, cur, incIdx,
                 IncludeHiddenInputs, IncludePasswordInputs,
                 SingleElementErrorLocation, MultipleElementErrorLocation>>

Next == Parse \/ ResolveLabels \/ Populate \/ InsertIncident \/ EndForm \/ Render

SpecPopulate == InitPopulate /\ [][Next]_vars

SpecIncident == InitIncident /\ [][Next]_vars

SpecLocation == InitLocation /\ [][Next]_vars

SpecForms == InitForms /\ [][Next]_vars

\* ------------------------------------------------------------ properties
curForm == fobjs[pforms[cur]]

\* Populate has run for the current form (and no incident has been inserted yet).
Populated == pc = "insert" /\ incIdx = 1

Count(attrs, name) == Cardinality({i \in 1..Len(attrs) : attrs[i].Key = name})

Supplied(n) == Get(doc[n].Attr, "name") \in DOMAIN curForm.Values
Params(n) == curForm.Values[Get(doc[n].Attr, "name")]
InputsOf(form) == {form.inputs[i] : i \in 1..Len(form.inputs)}
TypeOf(n) == Get(doc[n].Attr, "type")

\* The element falls under the "any other type" rule of the population table.
OtherRule(n) ==
  /\ doc[n].Data \notin {"select", "textarea"}
  /\ TypeOf(n) \notin {"radio", "checkbox", "file", "image"}
  /\ ~(TypeOf(n) = "password" /\ ~IncludePasswordInputs)
  /\ ~(TypeOf(n) = "hidden" /\ ~IncludeHiddenInputs)

\* The document as html.Render sees it: the tree under n, without node ids.
RECURSIVE Shape(_, _)
Shape(d, n) ==
  <<d[n].Type, d[n].Data, d[n].Attr,
    [i \in 1..Len(d[n].Children) |-> Shape(d, d[n].Children[i])]>>

\* C1: after population every element under the "any other type" rule whose
\* name has a supplied value list carries exactly one value attribute, equal
\* to the first supplied value, whatever value attribute it carried before
\* and wherever that attribute sat.
C1_OneValueAttribute ==
  pc \in {"insert", "panic"} =>
    \A n \in InputsOf(curForm) :
      (OtherRule(n) /\ Supplied(n)) =>
        /\ Count(doc[n].Attr, "value") = 1
        /\ Get(doc[n].Attr, "value") = Params(n)[1]

\* C2: after population an option recorded for a select with a supplied value
\* list carries the selected marker iff its value equals one of the values.
C2_SelectedIffMatch ==
  pc \in {"insert", "panic"} =>
    \A n \in InputsOf(curForm) :
      (doc[n].Data = "select" /\ Supplied(n)) =>
        \A k \in 1..Len(MapGet(curForm.options, n)) :
          LET o == curForm.options[n][k]
          IN Has(doc[o].Attr, "selected") <=>
               (\E j \in 1..Len(Params(n)) : Get(doc[o].Attr, "value") = Params(n)[j])

\* C3: after population a radio or checkbox with a supplied value list is
\* checked iff it has no value attribute or its value equals the first value.
C3_CheckedIffMatch ==
  pc \in {"insert", "panic"} =>
    \A n \in InputsOf(curForm) :
      (doc[n].Data \notin {"select", "textarea"} /\ TypeOf(n) \in {"radio", "checkbox"}
         /\ Supplied(n)) =>
        (Has(doc[n].Attr, "checked") <=>
           (~Has(doc[n].Attr, "value") \/ Get(doc[n].Attr, "value") = Params(n)[1]))

\* An input the population table excludes under the current configuration.
Frozen(n) ==
  /\ doc[n].Data = "input"
  /\ \/ TypeOf(n) \in {"file", "image"}
     \/ TypeOf(n) = "password" /\ ~IncludePasswordInputs
     \/ TypeOf(n) = "hidden" /\ ~IncludeHiddenInputs

\* C4: population never changes the attribute list of an input of type file
\* or image, of type password unless IncludePasswordInputs, of type hidden
\* unless IncludeHiddenInputs; New sets the former false and the latter true.
C4_FrozenTypes ==
  [][/\ pc = "populate" => \A n \in DOMAIN doc : Frozen(n) => doc'[n].Attr = doc[n].Attr
     /\ ~New.IncludePasswordInputs
     /\ New.IncludeHiddenInputs]_vars

C4_Witness ==
  /\ Populated
  /\ IncludePasswordInputs = New.IncludePasswordInputs
  /\ IncludeHiddenInputs = New.IncludeHiddenInputs
  /\ \E n \in InputsOf(curForm) :
       /\ doc[n].Data = "input" /\ TypeOf(n) = "password"
       /\ Supplied(n) /\ Get(doc[n].Attr, "value") # Params(n)[1]

\* C5: population is idempotent: run again with the same values on the
\* populated tree, it completes and leaves the tree identical.
C5_Idempotent ==
  Populated =>
    LET r == populate(doc, curForm, IncludeHiddenInputs, IncludePasswordInputs)
    IN ~r.panicked /\ Shape(r.doc, 1) = Shape(doc, 1)

\* An iteration of the incident loop is about to run for incident incIdx.
Inserting == pc = "insert" /\ incIdx <= Len(curForm.Incidents)

ElementsOf(i) == elementsOf(doc, curForm, curForm.Incidents[i])
\* The elements incident i matches.
Matched(i) == {ElementsOf(i)[k].Element : k \in 1..Len(ElementsOf(i))}

AncestorSet(d, n) == {Ancestors(d, n)[k] : k \in 1..Len(Ancestors(d, n))}
CommonAncestors(d, S) == {q \in DOMAIN d : \A e \in S : q \in AncestorSet(d, e)}
\* The lowest node that is a strict ancestor of every node of S.
LowestCommon(d, S) ==
  CHOOSE q \in CommonAncestors(d, S) :
    \A r \in CommonAncestors(d, S) : r = q \/ r \in AncestorSet(d, q)

LastChild(d, n) == IF d[n].Children = <<>> THEN NULL ELSE d[n].Children[Len(d[n].Children)]
PrevSibling(d, n) ==
  IF d[n].Parent = NULL THEN NULL
  ELSE LET sibs == d[d[n].Parent].Children
           i == IndexOf(sibs, n)
       IN IF i > 1 THEN sibs[i - 1] ELSE NULL

\* The fragments (ul nodes) that are in the tree.
Fragments(d) == {n \in DOMAIN d : d[n].Data = "ul" /\ d[n].Parent # NULL}
\* The fragment the coming Insert creates.
NewFrag == Len(doc) + 1

\* C6: for an incident with two or more matched elements exactly one
\* fragment is inserted, as the last child of the lowest common ancestor of
\* all matched elements.
C6_FragmentAtLowestCommonAncestor ==
  [][(Inserting /\ Cardinality(Matched(incIdx)) >= 2) =>
       /\ Fragments(doc') = Fragments(doc) \cup {NewFrag}
       /\ NewFrag \notin Fragments(doc)
       /\ doc'[NewFrag].Parent = LowestCommon(doc, Matched(incIdx))
       /\ LastChild(doc', LowestCommon(doc, Matched(incIdx))) = NewFrag]_vars

\* C7: for an incident that matches exactly one element the fragment becomes
\* the sibling immediately following the element, and the element's former
\* next sibling follows the fragment.
C7_FragmentAfterElement ==
  [][(Inserting /\ Cardinality(Matched(incIdx)) = 1) =>
       \A e \in Matched(incIdx) :
         /\ doc'[NewFrag].Parent = doc[e].Parent
         /\ NextSibling(doc', e) = NewFrag
         /\ NextSibling(doc', NewFrag) = NextSibling(doc, e)]_vars

\* The labels of element e: the label it is nested in, and the labels whose
\* for attribute names its id.
NestedLabels(d, e) ==
  LET ls == SelectSeq(Ancestors(d, e), LAMBDA q : d[q].Data = "label")
  IN IF ls = <<>> THEN {} ELSE {ls[1]}
ForLabels(d, e) ==
  {l \in DOMAIN d : /\ d[l].Data = "label" /\ Has(d[l].Attr, "for")
                    /\ Has(d[e].Attr, "id")
                    /\ Get(d[l].Attr, "for") = Get(d[e].Attr, "id")}
LabelsOf(d, e) == NestedLabels(d, e) \cup ForLabels(d, e)

RECURSIVE Tokens(_)
Tokens(j) == IF j = 1 THEN ErrorClass ELSE Tokens(j - 1) \o " " \o ErrorClass

\* Node n got the error class token (once or more) and nothing else changed.
GainsToken(n, most) ==
  LET class == Attribute(doc[n].Attr, "class")
  IN \E j \in 1..most :
       doc'[n].Attr = IF class # 0
                      THEN [doc[n].Attr EXCEPT ![class].Val = @ \o " " \o Tokens(j)]
                      ELSE Append(doc[n].Attr, A("class", Tokens(j)))

\* C8: for an incident with a matched element, every matched element and
\* every label of it (by nesting or by for) gets the error class token,
\* appended after a space to an existing class value or as a new class
\* attribute; no other node is given it.
C8_ErrorClassOnElementsAndLabels ==
  [][(Inserting /\ Matched(incIdx) # {}) =>
       LET marked == Matched(incIdx) \cup UNION {LabelsOf(doc, e) : e \in Matched(incIdx)}
       IN \A n \in DOMAIN doc :
            IF n \in marked THEN GainsToken(n, 2 * Len(ElementsOf(incIdx)))
            ELSE doc'[n].Attr = doc[n].Attr]_vars

\* C9: the placement is selectable: Before, After or Child, for the one
\* matched element and, separately, for the lowest common ancestor of several.
C9_PlacementSelectable ==
  [][Inserting =>
       /\ Cardinality(Matched(incIdx)) = 1 =>
            \A e \in Matched(incIdx) :
              /\ SingleElementErrorLocation = "Before" => NextSibling(doc', NewFrag) = e
              /\ SingleElementErrorLocation = "After" => NextSibling(doc', e) = NewFrag
              /\ SingleElementErrorLocation = "Child" =>
                    LastChild(doc', doc[e].Parent) = NewFrag
       /\ Cardinality(Matched(incIdx)) >= 2 =>
            LET anc == LowestCommon(doc, Matched(incIdx))
            IN /\ MultipleElementErrorLocation = "Before" => NextSibling(doc', NewFrag) = anc
               /\ MultipleElementErrorLocation = "After" => NextSibling(doc', anc) = NewFrag
               /\ MultipleElementErrorLocation = "Child" => LastChild(doc', anc) = NewFrag]_vars

\* The nodes under n in document order.
RECURSIVE Preorder(_, _)
RECURSIVE PreorderAll(_, _, _)
Preorder(d, n) == <<n>> \o PreorderAll(d, d[n].Children, 1)
PreorderAll(d, kids, k) ==
  IF k > Len(kids) THEN <<>>
  ELSE Preorder(d, kids[k]) \o PreorderAll(d, kids, k + 1)

Precedes(d, a, b) == IndexOf(Preorder(d, 1), a) < IndexOf(Preorder(d, 1), b)

FragText(d, ul) == [k \in 1..Len(d[ul].Children) |-> d[FirstChild(d, d[ul].Children[k])].Data]
\* The fragments in the tree that render incident i of the current form.
FragsOf(i) == {f \in Fragments(doc) : FragText(doc, f) = curForm.Incidents[i].Errors}

\* Where incident i is to be inserted: at its one element, or at the lowest
\* common ancestor of its elements.
InsertionPoint(i) ==
  IF Cardinality(Matched(i)) = 1 THEN <<"element", Matched(i)>>
  ELSE <<"ancestor", LowestCommon(doc, Matched(i))>>

\* C10: the fragments of two incidents of a form with the same insertion
\* point stand in the document in the order of the incidents.
C10_DeclarationOrder ==
  pc = "insert" =>
    \A i, j \in 1..(incIdx - 1) :
      (i < j /\ Matched(i) # {} /\ Matched(j) # {}
         /\ InsertionPoint(i) = InsertionPoint(j)) =>
        \A f \in FragsOf(i) : \A g \in FragsOf(j) : Precedes(doc, f, g)

\* The label list the label-resolution rule gives element e: the label it is
\* nested in, then the labels whose for attribute equals its id, in document
\* order.
NestedLabelSeq(d, e) ==
  LET ls == SelectSeq(Ancestors(d, e), LAMBDA q : d[q].Data = "label")
  IN IF ls = <<>> THEN <<>> ELSE <<ls[1]>>
ForLabelSeq(d, e) ==
  SelectSeq(Preorder(d, 1),
            LAMBDA l : /\ d[l].Data = "label" /\ Has(d[l].Attr, "for")
                       /\ Get(d[l].Attr, "for") = Get(d[e].Attr, "id"))

\* C11: after label resolution the label list of every input of the form is
\* its nested label followed by every label whose for attribute equals the
\* input's id, in document order: a match by reference is appended, replaces
\* nothing, and the list holds label elements only.
C11_LabelList ==
  pc = "populate" =>
    \A n \in InputsOf(curForm) :
      /\ MapGet(curForm.labels, n) = NestedLabelSeq(doc, n) \o ForLabelSeq(doc, n)
      /\ \A k \in 1..Len(MapGet(curForm.labels, n)) :
           doc[MapGet(curForm.labels, n)[k]].Data = "label"

\* The incidents of a form without the i-th.
Without(seq, i) == SubSeq(seq, 1, i - 1) \o SubSeq(seq, i + 1, Len(seq))

\* C12: an incident whose names match no element of the form's input list
\* changes nothing: the step that processes it leaves the tree as it is and
\* does not fail, and the tree after all incidents is the tree obtained from
\* the same form without that incident.
C12_UnmatchedIncidentNoOp ==
  /\ [][(Inserting /\ Matched(incIdx) = {}) =>
          doc' = doc /\ pc' = "insert" /\ incIdx' = incIdx + 1]_vars
  /\ [](Populated =>
          \A i \in 1..Len(curForm.Incidents) :
            Matched(i) = {} =>
              insert(doc, curForm) =
                insert(doc, [curForm EXCEPT !.Incidents = Without(@, i)]))

\* An unmatched incident and a matched one have both been processed.
C12_Witness ==
  /\ pc = "insert"
  /\ incIdx > Len(curForm.Incidents)
  /\ \E i, j \in 1..Len(curForm.Incidents) : Matched(i) = {} /\ Matched(j) # {}
  /\ Fragments(doc) # {}

\* The traversal is over and no form has been processed yet.
Traversed == pc = "forms" /\ pending = DOMAIN pforms

\* What Execute renders (or that it panicked) when the loop over p.forms
\* visits the keys in the given order.
Outcome(order) ==
  LET r == executeForms(doc, pforms, fobjs, plabels, order, 1,
                        IncludeHiddenInputs, IncludePasswordInputs)
  IN <<r.panicked, Shape(r.doc, 1)>>

\* C13: the order in which the forms are processed is not significant: every
\* order in which the loop can visit the forms gives the same final tree,
\* also when incidents of different forms have the same insertion point.
C13_FormOrderInsignificant ==
  Traversed => \A o1, o2 \in Perms(pending) : Outcome(o1) = Outcome(o2)

\* The form that owns element n: the one its non-empty form attribute names,
\* otherwise the form element it is nested in.
EnclosingForm(d, n) ==
  LET fs == SelectSeq(Ancestors(d, n), LAMBDA q : d[q].Type = "element" /\ d[q].Data = "form")
  IN IF fs = <<>> THEN NULL ELSE fs[1]
HasOwner(d, n) == Get(d[n].Attr, "form") # "" \/ EnclosingForm(d, n) # NULL
Owner(d, n) ==
  IF Get(d[n].Attr, "form") # "" THEN Get(d[n].Attr, "form")
  ELSE Get(d[EnclosingForm(d, n)].Attr, "id")
\* The elements population and error insertion are about.
Populatable(d, n) ==
  d[n].Type = "element" /\ Get(d[n].Attr, "name") # "" /\ IsInputKind(d[n])
\* The elements of form id, in document order.
ElementsOfForm(d, id) ==
  SelectSeq(Preorder(d, 1), LAMBDA n : Populatable(d, n) /\ HasOwner(d, n) /\ Owner(d, n) = id)

\* The form passed to Execute under the given ID.
Passed(id) == forms[LastWithID(forms, id)]
\* Incident `incident` of form id matches one of the form's elements.
MatchesIn(id, incident) ==
  \E k \in 1..Len(ElementsOfForm(doc, id)) : \E j \in 1..Len(incident.Names) :
    Get(doc[ElementsOfForm(doc, id)[k]].Attr, "name") = incident.Names[j]

\* C14: with several forms of distinct IDs every ID is bound to its own Form
\* record: an element of form A is recorded in A's input list only and is
\* populated from A's Values only, and the population and the incident
\* insertion of every form have run exactly once when Execute renders.
C14_OwnFormRecord ==
  pc # "start" =>
    /\ \A id \in DOMAIN pforms :
         /\ fobjs[pforms[id]].ID = id
         /\ fobjs[pforms[id]].Values = Passed(id).Values
         /\ fobjs[pforms[id]].Incidents = Passed(id).Incidents
         /\ \A n \in InputsOf(fobjs[pforms[id]]) : Owner(doc, n) = id
         /\ \A other \in DOMAIN pforms : other # id => pforms[other] # pforms[id]
    /\ pc = "done" =>
         \A id \in DOMAIN pforms :
           /\ \A k \in 1..Len(ElementsOfForm(doc, id)) :
                LET n == ElementsOfForm(doc, id)[k]
                    name == Get(doc[n].Attr, "name")
                IN IF name \in DOMAIN Passed(id).Values
                   THEN /\ Count(doc[n].Attr, "value") = 1
                        /\ Get(doc[n].Attr, "value") = Passed(id).Values[name][1]
                   ELSE Count(doc[n].Attr, "value") = 0
           /\ \A i \in 1..Len(Passed(id).Incidents) :
                Cardinality({f \in Fragments(doc) :
                               FragText(doc, f) = Passed(id).Incidents[i].Errors})
                  = IF MatchesIn(id, Passed(id).Incidents[i]) THEN 1 ELSE 0

\* C16: after the traversal the input list of every form holds exactly the
\* form's elements, in document order and each once: an element belongs to
\* the form its non-empty form attribute names, otherwise to the enclosing
\* form, and to no other.
C16_InputsInDocumentOrder ==
  Traversed => \A id \in DOMAIN pforms :
                 fobjs[pforms[id]].inputs = ElementsOfForm(doc, id)

\* The names Remove is asked to remove: the three populate passes, the keys
\* the elements carry, and one no element has.
RemoveNames == {"value", "checked", "selected", "name", "type", "zz"}

\* C15: Remove never faults and is effective: for every attribute list of the
\* tree and every name, the list the caller sees after Remove(name) holds no
\* attribute of that key and every other attribute in its original order,
\* wherever the attribute stood and however often it occurred.
C15_RemoveEffective ==
  \A n \in DOMAIN doc : \A name \in RemoveNames :
    LET r == Remove(doc[n].Attr, name)
    IN /\ ~r.panicked
       /\ r.Attr = SelectSeq(doc[n].Attr, LAMBDA a : a.Key # name)

====
